---- MODULE Spec2Model ----
(***************************************************************************)
(* Nextracker: a PyQt6 desktop monitor that polls a Nextcloud server-info  *)
(* endpoint from a worker thread (MonitorWorker.pull_metrics), selects the *)
(* configured fields out of the JSON answer (MonitorWorker.select_data)    *)
(* and shows them in a window (StatusWindow).                              *)
(*                                                                         *)
(* Two specifications:                                                     *)
(*   Spec        the running program: main (GUI) thread, worker thread,    *)
(*               their event queues, the timer and the window.             *)
(*   SpecSelect  select_data applied to documents and selections drawn     *)
(*               from bounded sets.                                        *)
(***************************************************************************)
EXTENDS Integers, Sequences, FiniteSets, TLC

VARIABLES
    enabled_settings,   \* settings.enabled_settings: <<section, <<key, ...>>>> pairs in dict order
    request_data,       \* SpecSelect: the document handed to select_data
    selected,           \* SpecSelect: what the call of select_data did
    main_pc,            \* where the main thread is in __main__
    thread_state,       \* the QThread: "running" | "quitting" | "finished"
    queue,              \* per thread, the posted events not yet handled (FIFO)
    call,               \* per thread, the activation of pull_metrics it is executing
    done,               \* the pull_metrics invocation that returned last
    timer_active,       \* StatusWindow.timer is running
    window,             \* the widgets' state: label, status bar, button
    timer_remaining,    \* ms until the running timer's timeout is due
    last_trigger,       \* the last call of update_status: who made it, ms since
    next_poll,          \* polls are numbered as they are requested: the next number
    delivered,          \* the outcome whose slot the main thread ran last
    stopped_at          \* when stop() was called: the first poll not finished (0: not called)

vars == <<enabled_settings, request_data, selected, main_pc, thread_state,
          queue, call, done, timer_active, window, timer_remaining, last_trigger,
          next_poll, delivered, stopped_at>>

(***************************************************************************)
(* Documents.  A parsed JSON value is a function from the paths that exist *)
(* in it (sequences of keys, <<>> the root) to the node found there.  A    *)
(* node is [t, v]: t its Python type, v a scalar's content.                *)
(***************************************************************************)
Node(t, v) == [t |-> t, v |-> v]
DictNode == Node("dict", <<>>)
ListNode == Node("list", <<>>)
NullNode == Node("null", <<>>)

\* Python's None as a value of the Result
None == (<<>> :> NullNode)

IsPrefix(p, q) == Len(p) <= Len(q) /\ SubSeq(q, 1, Len(p)) = p

\* the value found at path p of value (p \in DOMAIN value), as a document of its own
SubDoc(value, p) ==
    [q \in {SubSeq(r, Len(p) + 1, Len(r)) : r \in {x \in DOMAIN value : IsPrefix(p, x)}}
        |-> value[p \o q]]

\* MonitorWorker.response_map
response_map ==
    [status |->
        [status      |-> <<"ocs", "meta", "status">>,
         message     |-> <<"ocs", "meta", "message">>,
         status_code |-> <<"ocs", "meta", "statuscode">>],
     nextcloud_info |->
        [version    |-> <<"ocs", "data", "nextcloud", "system", "version">>,
         free_space |-> <<"ocs", "data", "nextcloud", "system", "freespace">>,
         users      |-> <<"ocs", "data", "activeUsers", "last5minutes">>],
     system_info |->
        [cpu_load     |-> <<"ocs", "data", "nextcloud", "system", "cpuload">>,
         total_memory |-> <<"ocs", "data", "nextcloud", "system", "mem_total">>,
         free_memory  |-> <<"ocs", "data", "nextcloud", "system", "mem_free">>,
         total_swap   |-> <<"ocs", "data", "nextcloud", "system", "swap_total">>,
         free_swap    |-> <<"ocs", "data", "nextcloud", "system", "swap_free">>],
     database |->
        [type    |-> <<"ocs", "data", "server", "database", "type">>,
         version |-> <<"ocs", "data", "server", "database", "version">>,
         size    |-> <<"ocs", "data", "server", "database", "size">>],
     php |->
        [webserver  |-> <<"ocs", "data", "server", "webserver">>,
         version    |-> <<"ocs", "data", "server", "php", "version">>,
         opcache    |-> <<"ocs", "data", "server", "php", "opcache">>,
         extensions |-> <<"ocs", "data", "server", "php", "extensions">>]]

(***************************************************************************)
(* select_data.  A Python call either returns a value or raises: the       *)
(* outcome is [exc, value], exc = "none" when it returned.                 *)
(***************************************************************************)
Returned(v) == [exc |-> "none", value |-> v]
Raised(e) == [exc |-> e, value |-> <<>>]

\* value[step], step a str: a dict is keyed (KeyError when the key is
\* missing); a list, a str, a number and None raise TypeError
getitem(value, step) ==
    IF value[<<>>].t = "dict"
    THEN IF <<step>> \in DOMAIN value
         THEN Returned(SubDoc(value, <<step>>))
         ELSE Raised("KeyError")
    ELSE Raised("TypeError")

\* for step in path: value = value[step]
RECURSIVE walk(_, _)
walk(value, path) ==
    IF path = <<>>
    THEN Returned(value)
    ELSE LET r == getitem(value, Head(path))
         IN  IF r.exc # "none" THEN r ELSE walk(r.value, Tail(path))

\* d[k] = v on a Python dict
DictSet(d, k, v) == [x \in DOMAIN d \cup {k} |-> IF x = k THEN v ELSE d[x]]

\* faulty variant of select_key: a path that does not resolve leaves the key out
select_key_abort_on_missing(request, section, key, fields) ==
    IF section \notin DOMAIN response_map \/ key \notin DOMAIN response_map[section]
    THEN Raised("KeyError")
    ELSE LET r == walk(request, response_map[section][key])
         IN  IF r.exc \in {"KeyError", "TypeError"}
             THEN Returned(fields)
             ELSE Returned(DictSet(fields, key, r.value))

\* faulty variant of select_key: "except KeyError" alone, TypeError leaves the call
select_key_catch_keyerror_only(request, section, key, fields) ==
    IF section \notin DOMAIN response_map \/ key \notin DOMAIN response_map[section]
    THEN Raised("KeyError")
    ELSE LET r == walk(request, response_map[section][key])
         IN  IF r.exc = "KeyError"
             THEN Returned(DictSet(fields, key, None))
             ELSE IF r.exc # "none" THEN r
             ELSE Returned(DictSet(fields, key, r.value))

\* the body of "for key in keys", one key: the lookup of the path raises
\* KeyError out of select_data; the walk's KeyError and TypeError are caught
select_key(request, section, key, fields) ==
    IF section \notin DOMAIN response_map \/ key \notin DOMAIN response_map[section]
    THEN Raised("KeyError")
    ELSE LET r == walk(request, response_map[section][key])
         IN  IF r.exc \in {"KeyError", "TypeError"}
             THEN Returned(DictSet(fields, key, None))
             ELSE Returned(DictSet(fields, key, r.value))

\* "for key in keys" over one section; fields is selected_data[section] so far
RECURSIVE select_keys(_, _, _, _)
select_keys(request, section, keys, fields) ==
    IF keys = <<>>
    THEN Returned(fields)
    ELSE LET r == select_key(request, section, Head(keys), fields)
         IN  IF r.exc # "none" THEN r
             ELSE select_keys(request, section, Tail(keys), r.value)

\* "for section, keys in settings.enabled_settings.items()"
RECURSIVE select_sections(_, _, _)
select_sections(request, items, selected_data) ==
    IF items = <<>>
    THEN Returned(selected_data)
    ELSE LET section == Head(items)[1]
             r == select_keys(request, section, Head(items)[2], <<>>)
         IN  IF r.exc # "none" THEN r
             ELSE select_sections(request, Tail(items),
                                  DictSet(selected_data, section, r.value))

select_data(request, settings_items) == select_sections(request, settings_items, <<>>)

(***************************************************************************)
(* settings.py: enabled_settings from the parsed nextracker.conf.  A conf  *)
(* is a sequence of <<section, <<<<key, text>>, ...>>>>.                   *)
(***************************************************************************)
\* configparser.getboolean: the texts it accepts, any other raises ValueError
BooleanStates ==
    ("1" :> TRUE) @@ ("yes" :> TRUE) @@ ("true" :> TRUE) @@ ("on" :> TRUE)
    @@ ("0" :> FALSE) @@ ("no" :> FALSE) @@ ("false" :> FALSE) @@ ("off" :> FALSE)

\* [key for key in config[section] if config.getboolean(section, key)]
RECURSIVE enabled_keys(_)
enabled_keys(options) ==
    IF options = <<>>
    THEN Returned(<<>>)
    ELSE LET key == Head(options)[1]
             text == Head(options)[2]
             rest == enabled_keys(Tail(options))
         IN  IF text \notin DOMAIN BooleanStates THEN Raised("ValueError")
             ELSE IF rest.exc # "none" THEN rest
             ELSE IF BooleanStates[text] THEN Returned(<<key>> \o rest.value)
             ELSE rest

\* lines 16-29: a section whose options raise is skipped with a warning, a
\* section with no enabled key is dropped; nothing is looked up in response_map
RECURSIVE load_enabled_settings(_)
load_enabled_settings(config) ==
    IF config = <<>>
    THEN <<>>
    ELSE LET r == enabled_keys(Head(config)[2])
             rest == load_enabled_settings(Tail(config))
         IN  IF r.exc # "none" \/ r.value = <<>>
             THEN rest
             ELSE << <<Head(config)[1], r.value>> >> \o rest

(***************************************************************************)
(* Inputs of SpecSelect.                                                   *)
(***************************************************************************)
\* the longest key list of a selection
MaxFields == 2

Sections == DOMAIN response_map
AllPaths == UNION {{response_map[s][k] : k \in DOMAIN response_map[s]} : s \in Sections}
Prefixes == UNION {{SubSeq(p, 1, n) : n \in 0..Len(p)} : p \in AllPaths}

\* a full answer of the serverinfo API: every path of response_map resolves
BaseDoc ==
    LET php == <<"ocs", "data", "server", "php">>
        inner == [p \in Prefixes |->
                    IF p = php \o <<"extensions">> THEN ListNode
                    ELSE IF p \in AllPaths /\ p # php \o <<"opcache">> THEN Node("str", p)
                    ELSE DictNode]
    IN  inner @@ (php \o <<"extensions", "0">> :> Node("str", <<"curl">>))
              @@ (php \o <<"opcache", "enabled">> :> Node("bool", <<"true">>))

AbsentNode == Node("absent", <<>>)
Replacements ==
    {AbsentNode, NullNode, ListNode, DictNode, Node("str", <<"x">>), Node("int", <<"7">>)}

\* D with everything at p replaced by the node n (removed when n is AbsentNode)
Damage(D, p, n) ==
    LET keep == {q \in DOMAIN D : ~IsPrefix(p, q)}
    IN  [q \in keep \cup (IF n = AbsentNode THEN {} ELSE {p}) |->
            IF q = p THEN n ELSE D[q]]

\* spec.md, Scenario A
ScenarioA ==
    (<<>> :> DictNode) @@ (<<"ocs">> :> DictNode) @@ (<<"ocs", "meta">> :> DictNode)
    @@ (<<"ocs", "meta", "status">> :> Node("str", <<"ok">>))
    @@ (<<"ocs", "meta", "statuscode">> :> Node("int", <<"200">>))

Documents ==
    {BaseDoc, ScenarioA}
    \cup {Damage(BaseDoc, p, n) : p \in Prefixes \ {<<>>}, n \in Replacements}
    \cup {Damage(BaseDoc, <<>>, n) : n \in Replacements \ {AbsentNode}}

UnknownName == "nosuch"
KeyLists(F) == UNION {[1..n -> F] : n \in 0..MaxFields}
Selections ==
    {<<>>}
    \cup UNION {{<< <<s, ks>> >> : ks \in KeyLists(DOMAIN response_map[s] \cup {UnknownName})}
                : s \in Sections}
    \cup {<< <<UnknownName, <<"status">> >> >>}
    \cup {<< <<"status", <<a>> >>, <<"database", <<b>> >> >> :
            a \in DOMAIN response_map["status"], b \in DOMAIN response_map["database"]}
    \cup {<< <<"status", <<>> >>, <<"database", <<"type", "type">> >> >>}

Pending == [exc |-> "pending", value |-> <<>>]

(***************************************************************************)
(* pull_metrics.  An HTTP answer is [kind, exc, doc]: kind "transport"     *)
(* (requests.get raised exc), "nonjson" (.json() raised JSONDecodeError)   *)
(* or "json" (doc is the parsed body).  A step of pull_metrics ends in     *)
(* [goto, signal, status, error, escaped]: the signal it emits with its    *)
(* argument, the exception that left the function, and where it goes on.   *)
(***************************************************************************)
Message(prefix, err) == [prefix |-> prefix, err |-> err]
NoMessage == Message("", "")

Step(goto, signal, status, error, escaped) ==
    [goto |-> goto, signal |-> signal, status |-> status, error |-> error,
     escaped |-> escaped]
EmitData(status) == Step("return", "data_ready", status, NoMessage, "none")
EmitError(prefix, err) == Step("return", "error_occurred", <<>>, Message(prefix, err), "none")
Escape(exc) == Step("return", "none", <<>>, NoMessage, exc)
Goto(label) == Step(label, "none", <<>>, NoMessage, "none")

\* the names bound in module settings when it has been imported
settings_attributes ==
    {"os", "configparser", "join", "dirname", "load_dotenv", "dotenv_path", "conf_path",
     "config", "enabled_settings", "section", "NC_INSTANCE", "NC_PASS", "NC_USER"}

PrimaryRequest == [url |-> "NC_INSTANCE", auth |-> TRUE]
FallbackRequest == [url |-> "NC_ROOT", auth |-> FALSE]

\* faulty variant of pull_metrics_primary: the first handler catches every
\* requests exception, so a transport failure goes to the fallback too
pull_metrics_primary_fallback_on_any_request_error(resp, items) ==
    IF resp.kind \in {"nonjson", "transport"}
    THEN Goto("except_JSONDecodeError")
    ELSE LET r == select_data(resp.doc, items)
         IN  IF r.exc = "none" THEN EmitData(r.value)
             ELSE EmitError("Request Error", r.exc)

\* faulty variant of pull_metrics_primary: no "except Exception" around select_data
pull_metrics_primary_no_catch_all(resp, items) ==
    IF resp.kind = "nonjson"
    THEN Goto("except_JSONDecodeError")
    ELSE IF resp.kind = "transport"
    THEN EmitError("Request Error", resp.exc)
    ELSE LET r == select_data(resp.doc, items)
         IN  IF r.exc = "none" THEN EmitData(r.value)
             ELSE Escape(r.exc)

\* lines 62-71 and 78-79: the outer try with the primary answer
pull_metrics_primary(resp, items) ==
    IF resp.kind = "nonjson"
    THEN Goto("except_JSONDecodeError")
    ELSE IF resp.kind = "transport"
    THEN EmitError("Request Error", resp.exc)
    ELSE LET r == select_data(resp.doc, items)
         IN  IF r.exc = "none" THEN EmitData(r.value)
             ELSE EmitError("Request Error", r.exc)

\* lines 72-73 and 76-77: settings.NC_ROOT is evaluated before requests.get is
\* called; an unbound name raises AttributeError inside the inner try
pull_metrics_fallback_request(attributes) ==
    IF "NC_ROOT" \in attributes
    THEN Goto("fallback")
    ELSE EmitError("JSON Decode Error", "AttributeError")

\* lines 73-77: the inner try with the fallback answer
pull_metrics_fallback(resp, items) ==
    IF resp.kind = "nonjson"
    THEN EmitError("JSON Decode Error", "JSONDecodeError")
    ELSE IF resp.kind = "transport"
    THEN EmitError("JSON Decode Error", resp.exc)
    ELSE LET r == select_data(resp.doc, items)
         IN  IF r.exc = "none" THEN EmitData(r.value)
             ELSE EmitError("JSON Decode Error", r.exc)

\* faulty variant of pull_metrics_step: the JSONDecodeError handler returns
\* without emitting an outcome
pull_metrics_step_drop_second_outcome(pc, resp, items) ==
    IF pc = "primary"
    THEN LET s == pull_metrics_primary(resp, items)
         IN  IF s.goto = "except_JSONDecodeError"
             THEN Goto("return")
             ELSE s
    ELSE pull_metrics_fallback(resp, items)

\* what pull_metrics does when the request in flight (pc) is answered by resp
pull_metrics_step(pc, resp, items) ==
    IF pc = "primary"
    THEN LET s == pull_metrics_primary(resp, items)
         IN  IF s.goto = "except_JSONDecodeError"
             THEN pull_metrics_fallback_request(settings_attributes)
             ELSE s
    ELSE pull_metrics_fallback(resp, items)

(***************************************************************************)
(* Threads, events and the window.                                         *)
(***************************************************************************)
Threads == {"main", "worker"}

\* line 117, worker.moveToThread(self.thread): the thread the worker lives in
worker_thread == "worker"
\* the StatusWindow is created by __main__ on the main thread
window_thread == "main"

Event(slot, status, error) == [slot |-> slot, status |-> status, error |-> error]
PullEvent == Event("pull_metrics", <<>>, NoMessage)
\* an event of the poll numbered n
Numbered(ev, n) == [slot |-> ev.slot, status |-> ev.status, error |-> ev.error, poll |-> n]
NoEvent == Numbered(Event("none", <<>>, NoMessage), 0)

Idle == [pc |-> "idle", requests |-> <<>>, responses |-> <<>>, signals |-> <<>>, poll |-> 0]
NotRun ==
    [ran |-> FALSE, thread |-> "", requests |-> <<>>, responses |-> <<>>,
     signals |-> <<>>, error |-> NoMessage, escaped |-> "none", doc |-> None]

\* one line of the label's text: indent spaces, then the pieces of text; at is
\* the place in the formatted value the line stands for (the order of the
\* lines is the key order of the Python dicts, which documents here do not keep)
Line(at, indent, text) == [at |-> at, indent |-> indent, text |-> text]
\* "\n".join([]) is the empty string
BlankLine == Line(<<>>, 0, <<>>)

\* f"{value}" of a value that is neither dict nor list
str(node) ==
    IF node.t = "null" THEN <<"None">>
    ELSE IF node.t = "bool" THEN (IF node.v = <<"true">> THEN <<"True">> ELSE <<"False">>)
    ELSE node.v

\* the lines formatted for the value at key
Under(key, lines) == {[l EXCEPT !.at = <<key>> \o @] : l \in lines}

\* StatusWindow.format_status_data, the text as the set of its lines
RECURSIVE format_status_data(_, _)
format_status_data(status_data, indent) ==
    LET t == status_data[<<>>].t
        keys == {q[1] : q \in {x \in DOMAIN status_data : x # <<>>}}
        lines ==
            IF t = "dict"
            THEN UNION {LET value == SubDoc(status_data, <<key>>)
                        IN  IF value[<<>>].t \in {"dict", "list"}
                            THEN {Line(<<key>>, indent, <<key, ":">>)}
                                 \cup Under(key, format_status_data(value, indent + 2))
                            ELSE {Line(<<key>>, indent, <<key, ": ">> \o str(value[<<>>]))}
                        : key \in keys}
            ELSE IF t = "list"
            THEN UNION {{Line(<<i>>, indent, <<"[", i, "]:">>)}
                        \cup Under(i, format_status_data(SubDoc(status_data, <<i>>),
                                                         indent + 2))
                        : i \in keys}
            ELSE {Line(<<>>, indent, str(status_data[<<>>]))}
    IN  IF lines = {} THEN {BlankLine} ELSE lines

\* the Result of select_data (section -> key -> value) as one document
ResultDoc(status) ==
    LET fields == UNION {{<<s, k>> : k \in DOMAIN status[s]} : s \in DOMAIN status}
        paths == {<<>>} \cup {<<s>> : s \in DOMAIN status}
                 \cup UNION {{f \o q : q \in DOMAIN status[f[1]][f[2]]} : f \in fields}
    IN  [p \in paths |-> IF Len(p) < 2 THEN DictNode
                         ELSE status[p[1]][p[2]][SubSeq(p, 3, Len(p))]]

\* the text of status_label: kind "error" stands for the leading "Error: "
Label(kind, lines, error) == [kind |-> kind, lines |-> lines, error |-> error]

\* StatusWindow.show_loading
show_loading(w) == [w EXCEPT !.statusBar = "Fetching data...", !.button = FALSE]

\* StatusWindow.update_status_display; a status with the key "error" is shown
\* as "Error: " and the repr of the value at that key (one line)
update_status_display(w, status) ==
    [label |-> IF "error" \in DOMAIN status
               THEN Label("error", {Line(<<"error">>, 0, <<"repr">>)}, NoMessage)
               ELSE Label("status", format_status_data(ResultDoc(status), 0), NoMessage),
     statusBar |-> "",
     button |-> TRUE]

\* faulty variant of show_error: the button is left as it is
show_error_leaves_button(w, error) ==
    [label |-> Label("error", {}, error), statusBar |-> "Error occurred", button |-> w.button]

\* faulty variant of show_error: what was rendered before stays
show_error_keeps_label(w, error) ==
    [w EXCEPT !.statusBar = "Error occurred", !.button = TRUE]

\* StatusWindow.show_error
show_error(w, error) ==
    [label |-> Label("error", {}, error), statusBar |-> "Error occurred", button |-> TRUE]

\* the slot an event names, run on the window
RunSlot(w, ev) ==
    IF ev.slot = "update_status_display" THEN update_status_display(w, ev.status)
    ELSE IF ev.slot = "show_error" THEN show_error(w, ev.error)
    ELSE w

\* lines 170-171: the slots connected to the worker's signals
ConnectedSlot(signal) ==
    IF signal = "data_ready" THEN "update_status_display"
    ELSE IF signal = "error_occurred" THEN "show_error"
    ELSE "none"

\* faulty variant of Post: the event overtakes those already waiting
Post_ahead_of_waiting(q, t, ev) == [q EXCEPT ![t] = <<ev>> \o @]

\* an event is posted to thread t: it waits behind those posted before it
Post(q, t, ev) == [q EXCEPT ![t] = Append(@, ev)]

\* faulty variant of refresh: the single shot fires in the caller's thread
refresh_in_callers_thread(q, state) ==
    IF state \in {"running", "quitting"}
    THEN Post(q, "main", Numbered(PullEvent, next_poll))
    ELSE q

\* NextcloudMonitor.refresh: QTimer.singleShot(0, worker.pull_metrics) with a
\* bound method of a QObject posts the call to the thread that object lives in
\* (line 128: "ensure this runs in the worker's thread")
refresh(q, state) ==
    IF state \in {"running", "quitting"}
    THEN Post(q, worker_thread, Numbered(PullEvent, next_poll))
    ELSE q

\* polls requested and not yet delivered to the window
Outstanding ==
    Len(queue["main"]) + Len(queue["worker"])
    + Cardinality({t \in Threads : call[t].pc # "idle"})

\* the most polls the environment lets be outstanding
MaxOutstanding == 3

\* the most polls the environment requests in a run
MaxPolls == 3

\* lines 167 and 203: timer.start(15000)
interval == 15000

\* the step of the clock, ms
TickMs == 7500

Min(a, b) == IF a < b THEN a ELSE b
Max(a, b) == IF a > b THEN a ELSE b

Trigger(kind, elapsed) == [kind |-> kind, elapsed |-> elapsed]

\* the parsed nextracker.conf files the program is started with
StatusConf ==
    << <<"status", << <<"status", "true">>, <<"status_code", "yes">>, <<"message", "no">> >> >> >>
UnknownKeyConf == << <<"status", << <<"uptime", "true">> >> >> >>
ConfFiles ==
    {<<>>,
     StatusConf,
     << <<"status", << <<"status", "false">> >> >>,
        <<"database", << <<"type", "on">> >> >> >>,
     << <<"status", << <<"status", "true">>, <<"message", "maybe">> >> >>,
        <<"php", << <<"extensions", "true">>, <<"opcache", "1">> >> >> >>,
     UnknownKeyConf,
     << <<"plugins", << <<"count", "true">> >> >> >>}

\* the conf files of the runs checked for liveness: one whose polls succeed
\* or fail with the answer, one whose every poll fails (no path for "uptime")
FairConfFiles == {StatusConf, UnknownKeyConf}

PollDocs == {ScenarioA, BaseDoc, Damage(BaseDoc, <<>>, ListNode)}
Responses ==
    {[kind |-> "transport", exc |-> e, doc |-> None] : e \in {"Timeout", "ConnectionError"}}
    \cup {[kind |-> "nonjson", exc |-> "JSONDecodeError", doc |-> None]}
    \cup {[kind |-> "json", exc |-> "none", doc |-> d] : d \in PollDocs}

(***************************************************************************)
(* The program.  Init is the state when NextcloudMonitor.__init__ has      *)
(* returned: the thread is started and its started signal has the first    *)
(* call of pull_metrics waiting on the worker's thread; the window is not  *)
(* built yet (window holds what its constructor will show).                *)
(***************************************************************************)
InitialWindow ==
    [label |-> Label("ready", {}, NoMessage), statusBar |-> "Ready", button |-> TRUE]

Init ==
    /\ \E conf \in ConfFiles : enabled_settings = load_enabled_settings(conf)
    /\ request_data = None
    /\ selected = Pending
    /\ main_pc = "construct"
    /\ thread_state = "running"
    /\ queue = [t \in Threads |-> IF t = worker_thread THEN <<Numbered(PullEvent, 1)>>
                                  ELSE <<>>]
    /\ call = [t \in Threads |-> Idle]
    /\ done = NotRun
    /\ timer_active = FALSE
    /\ window = InitialWindow
    /\ timer_remaining = 0
    /\ last_trigger = Trigger("none", 0)
    /\ next_poll = 2
    /\ delivered = NoEvent
    /\ stopped_at = 0

\* whether thread t is dispatching events: the main thread inside app.exec()
\* (also while the application winds down after the window closed), the worker
\* thread until it has finished (after quit() the pass over the posted events
\* that is under way may still deliver those behind the current one)
CanRun(t) ==
    IF t = "main" THEN main_pc \in {"exec", "closed"}
    ELSE thread_state \in {"running", "quitting"}

\* StatusWindow.__init__: the timer is started, the signals are connected
WindowInit ==
    /\ UNCHANGED stopped_at
    /\ main_pc = "construct"
    /\ main_pc' = "start"
    /\ timer_active' = TRUE
    /\ timer_remaining' = interval
    /\ window' = InitialWindow
    /\ UNCHANGED <<enabled_settings, request_data, selected, thread_state, queue, call, done,
                   last_trigger, next_poll, delivered>>

\* faulty variant of update_status: the timer is left to run on
update_status_without_restart ==
    /\ window' = show_loading(window)
    /\ UNCHANGED <<timer_active, timer_remaining>>
    /\ queue' = refresh(queue, thread_state)
    /\ next_poll' = IF queue' = queue THEN next_poll ELSE next_poll + 1

\* StatusWindow.update_status
update_status ==
    /\ window' = show_loading(window)
    /\ timer_active' = TRUE
    /\ timer_remaining' = interval
    /\ queue' = refresh(queue, thread_state)
    /\ next_poll' = IF queue' = queue THEN next_poll ELSE next_poll + 1

\* line 241: window.update_status()  # Initial update
InitialUpdate ==
    /\ UNCHANGED stopped_at
    /\ main_pc = "start"
    /\ main_pc' = "exec"
    /\ update_status
    /\ last_trigger' = Trigger("initial", 0)
    /\ UNCHANGED <<enabled_settings, request_data, selected, thread_state, call, done,
                   delivered>>

\* the user clicks the Refresh button (line 150)
ClickRefresh ==
    /\ UNCHANGED stopped_at
    /\ main_pc = "exec"
    /\ call["main"].pc = "idle"
    /\ window.button
    /\ Outstanding < MaxOutstanding
    /\ next_poll <= MaxPolls
    /\ update_status
    /\ last_trigger' = Trigger("manual", 0)
    /\ UNCHANGED <<enabled_settings, request_data, selected, main_pc, thread_state, call, done,
                   delivered>>

\* the timer's timeout (line 166); closeEvent leaves the timer running, so it
\* can also come due while the application winds down
TimerTimeout ==
    /\ UNCHANGED stopped_at
    /\ CanRun("main")
    /\ call["main"].pc = "idle"
    /\ timer_active
    /\ timer_remaining = 0
    /\ Outstanding < MaxOutstanding
    /\ next_poll <= MaxPolls
    /\ update_status
    /\ last_trigger' = Trigger("timer", 0)
    /\ UNCHANGED <<enabled_settings, request_data, selected, main_pc, thread_state, call, done,
                   delivered>>

\* TickMs of time pass
Tick ==
    /\ UNCHANGED stopped_at
    /\ main_pc # "exited"
    /\ timer_active
    /\ timer_remaining > 0 \/ last_trigger.elapsed < interval
    /\ timer_remaining' = Max(0, timer_remaining - TickMs)
    /\ last_trigger' = [last_trigger EXCEPT !.elapsed = Min(interval, @ + TickMs)]
    /\ UNCHANGED <<enabled_settings, request_data, selected, main_pc, thread_state, queue,
                   call, done, timer_active, window, next_poll, delivered>>

\* thread t takes a posted call of pull_metrics: lines 59-68, update_started is
\* emitted (no slot is connected to it) and the primary GET is sent
PullStart(t) ==
    /\ UNCHANGED stopped_at
    /\ CanRun(t)
    /\ call[t].pc = "idle"
    /\ queue[t] # <<>>
    /\ Head(queue[t]).slot = "pull_metrics"
    /\ queue' = [queue EXCEPT ![t] = Tail(@)]
    /\ call' = [call EXCEPT ![t] = [pc |-> "primary", requests |-> <<PrimaryRequest>>,
                                    responses |-> <<>>, signals |-> <<"update_started">>,
                                    poll |-> Head(queue[t]).poll]]
    /\ UNCHANGED <<enabled_settings, request_data, selected, main_pc, thread_state, done,
                   timer_active, window, timer_remaining, last_trigger, next_poll, delivered>>

\* the GET in flight on thread t is answered (or fails); pull_metrics runs on to
\* its next GET or to its return
NetworkResponse(t) ==
    /\ UNCHANGED stopped_at
    /\ call[t].pc \in {"primary", "fallback"}
    /\ \E resp \in Responses :
       \E s \in {pull_metrics_step(call[t].pc, resp, enabled_settings)} :
       \E ev \in {Numbered(Event(ConnectedSlot(s.signal), s.status, s.error), call[t].poll)} :
          IF s.goto = "fallback"
          THEN /\ call' = [call EXCEPT ![t].pc = "fallback",
                                       ![t].requests = Append(@, FallbackRequest),
                                       ![t].responses = Append(@, resp.kind)]
               /\ UNCHANGED <<done, queue, window, delivered>>
          ELSE /\ call' = [call EXCEPT ![t] = Idle]
               /\ done' = [ran |-> TRUE, thread |-> t, requests |-> call[t].requests,
                           responses |-> Append(call[t].responses, resp.kind),
                           signals |-> IF s.signal = "none" THEN call[t].signals
                                       ELSE Append(call[t].signals, s.signal),
                           error |-> s.error, escaped |-> s.escaped,
                           doc |-> IF resp.kind = "json" THEN resp.doc ELSE None]
               /\ IF ev.slot = "none" \/ main_pc = "construct"
                  THEN UNCHANGED <<queue, window, delivered>>
                  ELSE IF t = window_thread
                  THEN window' = RunSlot(window, ev) /\ delivered' = ev /\ UNCHANGED queue
                  ELSE queue' = Post(queue, window_thread, ev)
                       /\ UNCHANGED <<window, delivered>>
    /\ UNCHANGED <<enabled_settings, request_data, selected, main_pc, thread_state,
                   timer_active, timer_remaining, last_trigger, next_poll>>

\* the main thread runs the slot of the next queued signal
MainDeliver ==
    /\ UNCHANGED stopped_at
    /\ CanRun("main")
    /\ call["main"].pc = "idle"
    /\ queue["main"] # <<>>
    /\ Head(queue["main"]).slot # "pull_metrics"
    /\ window' = RunSlot(window, Head(queue["main"]))
    /\ delivered' = Head(queue["main"])
    /\ queue' = [queue EXCEPT !["main"] = Tail(@)]
    /\ UNCHANGED <<enabled_settings, request_data, selected, main_pc, thread_state, call,
                   done, timer_active, timer_remaining, last_trigger, next_poll>>

\* the number of the first poll that is in flight or queued on the worker's
\* thread (the number the next poll will get when there is none)
FirstUnfinished ==
    IF call[worker_thread].pc # "idle" THEN call[worker_thread].poll
    ELSE IF queue[worker_thread] # <<>> THEN Head(queue[worker_thread]).poll
    ELSE next_poll

\* StatusWindow.closeEvent calls NextcloudMonitor.stop: thread.quit(), then
\* thread.wait() blocks the main thread
CloseEvent ==
    /\ main_pc = "exec"
    /\ call["main"].pc = "idle"
    /\ main_pc' = "stopping"
    /\ thread_state' = IF thread_state = "running" THEN "quitting" ELSE thread_state
    /\ stopped_at' = FirstUnfinished
    /\ UNCHANGED <<enabled_settings, request_data, selected, queue, call, done,
                   timer_active, window, timer_remaining, last_trigger, next_poll, delivered>>

\* the worker thread's event loop returns
ThreadFinish ==
    /\ UNCHANGED stopped_at
    /\ thread_state = "quitting"
    /\ call[worker_thread].pc = "idle"
    /\ thread_state' = "finished"
    /\ UNCHANGED <<enabled_settings, request_data, selected, main_pc, queue, call, done,
                   timer_active, window, timer_remaining, last_trigger, next_poll, delivered>>

\* thread.wait() returns, super().closeEvent(event) closes the window
StopReturns ==
    /\ UNCHANGED stopped_at
    /\ main_pc = "stopping"
    /\ thread_state = "finished"
    /\ main_pc' = "closed"
    /\ UNCHANGED <<enabled_settings, request_data, selected, thread_state, queue, call,
                   done, timer_active, window, timer_remaining, last_trigger, next_poll,
                   delivered>>

\* app.exec() returns, sys.exit
AppExit ==
    /\ UNCHANGED stopped_at
    /\ main_pc = "closed"
    /\ main_pc' = "exited"
    /\ UNCHANGED <<enabled_settings, request_data, selected, thread_state, queue, call,
                   done, timer_active, window, timer_remaining, last_trigger, next_poll,
                   delivered>>

Next ==
    \/ WindowInit
    \/ InitialUpdate
    \/ ClickRefresh
    \/ TimerTimeout
    \/ Tick
    \/ \E t \in Threads : PullStart(t)
    \/ \E t \in Threads : NetworkResponse(t)
    \/ MainDeliver
    \/ CloseEvent
    \/ ThreadFinish
    \/ StopReturns
    \/ AppExit

Spec == Init /\ [][Next]_vars

\* the program started with one of FairConfFiles
InitFair ==
    /\ Init
    /\ enabled_settings \in {load_enabled_settings(conf) : conf \in FairConfFiles}

\* The program with the scheduling the liveness of the display rests on: the worker
\* thread's event loop takes a posted call when it is idle, a GET returns or
\* times out (requests.get with timeout=5), and the main thread's event loop
\* runs a queued slot
SpecFair ==
    /\ InitFair
    /\ [][Next]_vars
    /\ WF_vars(PullStart(worker_thread))
    /\ WF_vars(NetworkResponse(worker_thread))
    /\ WF_vars(MainDeliver)

(***************************************************************************)
(* select_data alone, on every document and selection of the bounded sets. *)
(***************************************************************************)
InitSelect ==
    /\ enabled_settings \in Selections
    /\ request_data \in Documents
    /\ selected = Pending
    /\ main_pc = "construct"
    /\ thread_state = "running"
    /\ queue = [t \in Threads |-> <<>>]
    /\ call = [t \in Threads |-> Idle]
    /\ done = NotRun
    /\ timer_active = FALSE
    /\ window = InitialWindow
    /\ timer_remaining = 0
    /\ last_trigger = Trigger("none", 0)
    /\ next_poll = 2
    /\ delivered = NoEvent
    /\ stopped_at = 0

CallSelectData ==
    /\ UNCHANGED stopped_at
    /\ selected.exc = "pending"
    /\ selected' = select_data(request_data, enabled_settings)
    /\ UNCHANGED <<enabled_settings, request_data, main_pc, thread_state, queue, call,
                   done, timer_active, window, timer_remaining, last_trigger, next_poll,
                   delivered>>

NextSelect == CallSelectData

SpecSelect == InitSelect /\ [][NextSelect]_vars

(***************************************************************************)
(* Properties of the program (Spec).                                       *)
(***************************************************************************)
InFlight == {t \in Threads : call[t].pc # "idle"}

\* C1: in every reachable state at most one execution of pull_metrics (one
\* network call) is in progress, whatever the interleaving of the thread's
\* first call, manual refreshes and timer timeouts.
AtMostOneNetworkCall == Cardinality(InFlight) <= 1

\* a poll is in flight on the worker while a refresh has queued another
RefreshWhilePollInFlight ==
    /\ main_pc = "exec"
    /\ call[worker_thread].pc = "primary"
    /\ queue[worker_thread] # <<>>

\* C2: while a poll is outstanding, the polls queued behind it never number
\* more than one, however many refresh triggers (manual or timer) arrive.
AtMostOneQueuedPoll ==
    call[worker_thread].pc # "idle" => Len(queue[worker_thread]) <= 1

\* C3: every invocation of pull_metrics emits update_started first and then
\* exactly one outcome signal, data_ready or error_occurred, on every path.
ExactlyOneOutcome ==
    /\ \A t \in InFlight : call[t].signals = <<"update_started">>
    /\ done.ran => done.signals \in {<<"update_started", "data_ready">>,
                                     <<"update_started", "error_occurred">>}

\* an invocation has returned on the path through the JSONDecodeError handler
ReturnedThroughDecodeHandler ==
    /\ done.ran
    /\ done.responses[1] = "nonjson"
    /\ Len(done.signals) = 2

\* C4: when the primary body fails to parse, the poll issues exactly one
\* further GET, to the fallback root endpoint without credentials, and a
\* fallback body that parses makes the poll deliver data_ready.
FallbackQueriedOnDecodeFailure ==
    (done.ran /\ done.responses[1] = "nonjson") =>
        /\ done.requests = <<PrimaryRequest, FallbackRequest>>
        /\ (done.responses = <<"nonjson", "json">>
            /\ select_data(done.doc, enabled_settings).exc = "none")
           => done.signals = <<"update_started", "data_ready">>

\* C5: a transport failure of the primary request is delivered as a failure
\* of the transport kind ('Request Error') with no request to the fallback
\* endpoint; the fallback handler is entered only after a decode failure of
\* the primary body.
TransportFailureSkipsFallback ==
    done.ran =>
        /\ done.responses[1] = "transport" =>
            /\ done.signals = <<"update_started", "error_occurred">>
            /\ done.error.prefix = "Request Error"
            /\ done.requests = <<PrimaryRequest>>
        /\ (Len(done.requests) > 1 \/ done.error.prefix = "JSON Decode Error")
           => done.responses[1] = "nonjson"

\* a poll whose primary request failed in transport has delivered its outcome
TransportFailureDelivered ==
    /\ done.ran
    /\ done.responses = <<"transport">>
    /\ done.error.prefix = "Request Error"
    /\ \E i \in 1..Len(queue[window_thread]) :
          /\ queue[window_thread][i].slot = "show_error"
          /\ queue[window_thread][i].error = done.error

\* C6: a failure of the decode kind ('JSON Decode Error') is delivered only
\* when the body failed to parse on both the primary and the fallback
\* attempt; every other failure has the transport kind.
DecodeKindOnlyAfterTwoDecodeFailures ==
    (done.ran /\ "error_occurred" \in {done.signals[i] : i \in 1..Len(done.signals)}) =>
        IF done.responses = <<"nonjson", "nonjson">>
        THEN done.error.prefix = "JSON Decode Error"
        ELSE done.error.prefix = "Request Error"

\* the poll that returned last failed: its last answer is no JSON document, or
\* the resolution of the fields raised
PollFailed ==
    \/ done.responses[Len(done.responses)] # "json"
    \/ select_data(done.doc, enabled_settings).exc # "none"

\* C7: no exception escapes pull_metrics: every transport, decode or
\* resolution failure reaches the listener as error_occurred, and one poll
\* issues at most two HTTP requests.
NoExceptionEscapes ==
    done.ran =>
        /\ done.escaped = "none"
        /\ Len(done.requests) <= 2
        /\ PollFailed => done.signals = <<"update_started", "error_occurred">>

\* a poll got a JSON document, the resolution raised, and the error was emitted
ResolutionFailureReported ==
    /\ done.ran
    /\ done.responses = <<"json">>
    /\ select_data(done.doc, enabled_settings).exc = "KeyError"
    /\ done.signals = <<"update_started", "error_occurred">>

\* every (section, field) of the selection has a PathSpec in response_map
AllHavePathSpec(items) ==
    \A i \in 1..Len(items) :
        /\ items[i][1] \in DOMAIN response_map
        /\ \A j \in 1..Len(items[i][2]) :
              items[i][2][j] \in DOMAIN response_map[items[i][1]]

\* C8: a selection naming a section or field without a PathSpec is rejected
\* at startup, before any poll is issued; it never shows up as the failure of
\* a poll at run time.
UnknownFieldRejectedAtStartup ==
    ~AllHavePathSpec(enabled_settings) => (InFlight = {} /\ ~done.ran)

\* C11: every refresh restarts the timer's countdown from the full 15000 ms,
\* so the timeout never comes due less than one full interval after the most
\* recent refresh trigger, manual or periodic.
TimerRestartsOnRefresh ==
    (timer_active /\ last_trigger.kind # "none") =>
        timer_remaining + last_trigger.elapsed >= interval

\* the timeout has come due one full interval after a manual refresh
TimeoutDueAfterManualRefresh ==
    /\ timer_active
    /\ last_trigger = Trigger("manual", interval)
    /\ timer_remaining = 0

\* stop() has returned: thread.wait() is over
Stopped == main_pc \in {"closed", "exited"}

\* C12: stop() terminates the periodic schedule: once stop() has returned no
\* periodic trigger fires any more and no new poll is started, neither by the
\* timer nor by refresh().
StopEndsPeriodicSchedule ==
    [][Stopped => ~(TimerTimeout \/ \E t \in Threads : PullStart(t))]_vars

\* C13: the outcome of a poll that is in flight or queued when stop() is
\* called is never delivered to the listener after stop() has returned (the
\* main thread is inside stop() from the call to the return, so whatever it
\* delivers of such a poll it delivers after the return).
UnfinishedOutcomeNeverDelivered ==
    stopped_at > 0 => delivered.poll < stopped_at

\* C14: outcomes reach the window's slots in the order in which their polls
\* were initiated: each delivery is of a poll initiated later than the poll
\* of the delivery before it.
DeliveredInInitiationOrder ==
    [][delivered' # delivered => delivered'.poll > delivered.poll]_vars

\* the outcome of a poll requested by a refresh has been delivered while the
\* outcome of a later poll waits for its turn
LaterOutcomeWaits ==
    /\ delivered.poll >= 2
    /\ queue[window_thread] # <<>>
    /\ Head(queue[window_thread]).poll > delivered.poll

\* what the label shows for an outcome: "Error: <message>" for a failure, the
\* formatted Result for a success
Rendered(ev) ==
    IF ev.slot = "show_error"
    THEN Label("error", {}, ev.error)
    ELSE Label("status", format_status_data(ResultDoc(ev.status), 0), NoMessage)

\* C16: the display reflects the outcome delivered last: the delivery of a
\* failure overwrites the label with "Error: <message>" (nothing rendered
\* before is left), the delivery of a success overwrites it with the
\* formatted Result, both enable the refresh button, and nothing else
\* changes the label.
DisplayReflectsLastOutcome ==
    [][/\ delivered' # delivered =>
            /\ window'.label = Rendered(delivered')
            /\ window'.button
       /\ delivered' = delivered => window'.label = window.label]_vars

\* a failure is on display, with the button enabled, and the formatted Result
\* of an earlier poll is gone from the label
FailureOnDisplay ==
    /\ delivered.slot = "show_error"
    /\ delivered.poll >= 2
    /\ delivered.error.prefix = "Request Error"
    /\ window.label = Label("error", {}, delivered.error)
    /\ window.button

\* the window shows the loading state set by update_status
Loading == ~window.button /\ window.statusBar = "Fetching data..."

\* C17: while stop() has not been called, a window that update_status put in
\* the loading state (button disabled) gets the outcome of a poll delivered,
\* which enables the button again: the loading state does not last for ever.
LoadingStateEnds ==
    (main_pc = "exec" /\ Loading) ~> (window.button \/ main_pc # "exec")

\* the outcome of a poll has ended the loading state of a running window
LoadingEndedByOutcome ==
    /\ main_pc = "exec"
    /\ delivered.poll >= 2
    /\ window.button
    /\ window.statusBar # "Fetching data..."

\* C18: the busy state tracks the polls: whenever the refresh button of the
\* running window is enabled, no poll is in flight or queued on the worker.
ButtonEnabledOnlyWhenNoPoll ==
    (main_pc = "exec" /\ window.button) =>
        /\ call[worker_thread].pc = "idle"
        /\ queue[worker_thread] = <<>>

(***************************************************************************)
(* Properties of select_data (SpecSelect).                                 *)
(***************************************************************************)
\* every step of path is keyable in D: the path exists and all that lies
\* above its end is a mapping
Resolvable(D, path) ==
    /\ path \in DOMAIN D
    /\ \A n \in 0..(Len(path) - 1) : D[SubSeq(path, 1, n)].t = "dict"

Expected(D, path) == IF Resolvable(D, path) THEN SubDoc(D, path) ELSE None

Called == selected.exc # "pending"

\* C9: for a selection whose pairs all have a PathSpec, each value of the
\* Result is the value reached by keying the document with the path's
\* segments when every step is keyable, and null otherwise; a field that
\* does not resolve neither raises nor changes another field's value.
ResolvesEachField ==
    (Called /\ AllHavePathSpec(enabled_settings)) =>
        /\ selected.exc = "none"
        /\ \A i \in 1..Len(enabled_settings) :
              LET section == enabled_settings[i][1]
                  keys == enabled_settings[i][2]
              IN  /\ section \in DOMAIN selected.value
                  /\ \A j \in 1..Len(keys) :
                        /\ keys[j] \in DOMAIN selected.value[section]
                        /\ selected.value[section][keys[j]]
                              = Expected(request_data, response_map[section][keys[j]])

\* a call returned a Result in which one field is null because an
\* intermediate value is not a mapping, beside a sibling that resolved
NullBesideResolvedSibling ==
    /\ selected.exc = "none"
    /\ Len(enabled_settings) = 1
    /\ AllHavePathSpec(enabled_settings)
    /\ Len(enabled_settings[1][2]) = 2
    /\ LET section == enabled_settings[1][1]
           p1 == response_map[section][enabled_settings[1][2][1]]
           p2 == response_map[section][enabled_settings[1][2][2]]
       IN  /\ \E n \in 1..(Len(p1) - 1) :
                 /\ SubSeq(p1, 1, n) \in DOMAIN request_data
                 /\ request_data[SubSeq(p1, 1, n)].t \in {"list", "str", "int", "null"}
           /\ selected.value[section][enabled_settings[1][2][1]] = None
           /\ Resolvable(request_data, p2)
           /\ selected.value[section][enabled_settings[1][2][2]] = SubDoc(request_data, p2)

\* C10: for a selection whose pairs all have a PathSpec, the Result has
\* exactly the (section, field) keys of the selection: an empty field list
\* gives an empty mapping, a field listed twice appears once, nothing else
\* appears.
SameKeysAsSelection ==
    (Called /\ AllHavePathSpec(enabled_settings)) =>
        /\ selected.exc = "none"
        /\ DOMAIN selected.value = {enabled_settings[i][1] : i \in 1..Len(enabled_settings)}
        /\ \A i \in 1..Len(enabled_settings) :
              DOMAIN selected.value[enabled_settings[i][1]]
                 = {enabled_settings[i][2][j] : j \in 1..Len(enabled_settings[i][2])}

\* a Result for a selection with an empty field list and a field listed twice
EmptyAndDuplicateSelected ==
    /\ enabled_settings = << <<"status", <<>> >>, <<"database", <<"type", "type">> >> >>
    /\ selected.exc = "none"
    /\ DOMAIN selected.value = {"status", "database"}
    /\ DOMAIN selected.value["status"] = {}
    /\ DOMAIN selected.value["database"] = {"type"}

====
